---- MODULE Spec2Model ----
(***************************************************************************)
(* CppND-Capstone-Snake-Game: the simulation thread (Game::Game, Game::Run, *)
(* Game::Update, Game::PlaceFood, Snake, Food, FoodManager, main's report)  *)
(* and the render thread (Renderer::operator(), Renderer::Render).          *)
(*                                                                         *)
(* Floats.  head_x, head_y and speed are floats whose values are all        *)
(* multiples of 0.005 (0.15, 0.05, +0.005, +0.05, 0.3, integer cells).      *)
(* They are kept as integers counting units of 0.005: one cell is Unit      *)
(* units, static_cast<int>(h) is ToInt(h), which truncates towards zero,   *)
(* and fmod(h + g, g) is Fmod(h + g*Unit, g*Unit), whose result has the     *)
(* sign of its first argument.  Float rounding is not modelled.             *)
(*                                                                         *)
(* Granularity.  Each thread is a program counter (sim_pc, r_pc).  A step   *)
(* is one access to state the other thread can see: a lock acquisition, a   *)
(* write of a snake's head, one mutation of a body vector, one write of a   *)
(* Food's position, and so on.  std::lock_guard releases at the end of the  *)
(* scope; the release is part of the last step of that scope.               *)
(*                                                                         *)
(* Specifications.  All of them run the same actions; they differ only in   *)
(* the bounds record B handed to the three places where the program takes   *)
(* input from outside (keys, random draws) and to the tick limit.           *)
(*   Spec      both threads, BConc                                          *)
(*   SpecFair  Spec with weak fairness of each thread                       *)
(*   SpecGame  simulation thread alone (the render thread is never          *)
(*             scheduled), BGame: all four keys, three food types           *)
(*   SpecBoost simulation thread alone, BBoost: five ticks, Boost foods     *)
(*   SpecDeath simulation thread alone, BDeath: the player reverses into    *)
(*             itself, the foods are around the enemy                       *)
(*   SpecCut   simulation thread alone, BCut: four ticks, Cut foods         *)
(*   SpecAge   simulation thread alone, BAge: 302 ticks, more than a        *)
(*             food's lifetime, the player out of the foods' way            *)
(*   SpecLong  simulation thread alone, BLong: 68 ticks, in which the       *)
(*             player reaches the enemy's column                            *)
(*   SpecMeet  simulation thread alone, BMeet: 81 ticks, steered so that    *)
(*             both heads enter the cell of a food in the same tick         *)
(*   SpecNav   simulation thread alone, BNav: six ticks, Boost foods drawn  *)
(*             around the enemy, which Navigate steers                      *)
(*   SpecFull  simulation thread alone with weak fairness, BFull: PlaceFood *)
(*             draws from two cells, both of which the player comes to      *)
(*             occupy                                                       *)
(*   SpecWrap  simulation thread alone, BWrap: 1320 ticks, the draws and    *)
(*             keys chosen so that the player consumes a food on almost     *)
(*             every tick                                                   *)
(*   SpecEdge  simulation thread alone, BEdge: 206 ticks, the foods drawn   *)
(*             so that the enemy walks to column 31 and turns up            *)
(***************************************************************************)
EXTENDS Integers, Sequences, FiniteSets, TLC

VARIABLES
  snake,      \* Game::snake  (the player)
  enemy,      \* Game::enemy
  foods,      \* FoodManager::foods
  scores,     \* Game::scores, <<*scores[0], *scores[1]>>
  mtx,        \* owner of FoodManager::mtx: "none", "sim" or "render"
  score_mtx,  \* owner of Game::score_mtx
  running,    \* Game::Run's local `running`
  sim_pc,     \* where the simulation (main) thread is
  sim_who,    \* "ctor", "snake" or "enemy": whose Update / food check / PlaceFood runs
  sim_index,  \* Game::Game's i, Game::Update's index
  sim_arg,    \* the arguments PlaceFood passes to UpdateFood; Update's `type`
  ticks,      \* iterations of Run's loop started so far (bounds the model)
  foods_whole,\* history: foods as the last completed FoodManager mutation left them
  report,     \* what main read through GetScore
  r_pc,       \* where the render thread is
  r_who,      \* which snake Render is drawing
  r_foods,    \* Renderer::foods
  r_body,     \* the body cells Render has iterated for r_who in this frame
  r_head,     \* the head cell Render has drawn for r_who in this frame
  r_title     \* the arguments of the last UpdateWindowTitle

vars == <<snake, enemy, foods, scores, mtx, score_mtx, running, sim_pc, sim_who,
          sim_index, sim_arg, ticks, foods_whole, report,
          r_pc, r_who, r_foods, r_body, r_head, r_title>>

simvars == <<snake, enemy, foods, scores, mtx, score_mtx, running, sim_pc, sim_who,
             sim_index, sim_arg, ticks, foods_whole, report>>

simvars_but_mtx == <<snake, enemy, foods, scores, score_mtx, running, sim_pc, sim_who,
                     sim_index, sim_arg, ticks, foods_whole, report>>

rvars == <<r_pc, r_who, r_foods, r_body, r_head, r_title>>

----------------------------------------------------------------------------
(* Program constants *)

Unit == 200
kGridWidth == 32
kGridHeight == 32
kSnakeSpeed == 30
kEnemySpeed == 10
kInitOffset == 5
MAX_SPEED == 60
kNormalSpeedUp == 1
kBoostSpeedUp == 10
kNormalScore == 1
kSpecialScore == 3
kCutLength == 3
MAX_COUNT == 300
target_food_number == 2
kBoostBelow == 15
kCutBelow == 30
kProbes == 4

(* Bounds of the model *)

MaxTicks == 1
MaxGameTicks == 3
MaxBoostTicks == 5
MaxDeathTicks == 3
MaxLongTicks == 68
MaxCutTicks == 4
MaxAgeTicks == 302

\* iterations of Run's loop in SpecMeet: the player enters the enemy's head
\* cell in iteration 81
MaxMeetTicks == 81

\* iterations of Run's loop in SpecFull
MaxFullTicks == 3

\* iterations of Run's loop in SpecNav
MaxNavTicks == 6

\* iterations of Run's loop in SpecWrap
MaxWrapTicks == 1320

\* iterations of Run's loop in SpecEdge
MaxEdgeTicks == 206

Directions == {"kUp", "kDown", "kLeft", "kRight"}

\* what a specification tries: the number of iterations of Run's loop, the
\* keys in each iteration, and the draws of random_w, random_h and random_n

\* both threads, one iteration
BConc == [ticks |-> MaxTicks, keys |-> [t \in 1..MaxTicks |-> {"none", "quit"}],
          W |-> {11, 21}, H |-> {15, 20}, N |-> {0}]

\* every food type, around the player
BGame == [ticks |-> MaxGameTicks,
          keys |-> [t \in 1..MaxGameTicks |-> Directions \cup {"quit"}],
          W |-> {10, 11}, H |-> {15, 16}, N |-> {0, 15, 30}]

\* Boost foods only, around the player
BBoost == [ticks |-> MaxBoostTicks, keys |-> [t \in 1..MaxBoostTicks |-> Directions],
           W |-> {10, 11}, H |-> {15, 16}, N |-> {0}]

\* the player can reverse into itself; the foods are around the enemy
BDeath == [ticks |-> MaxDeathTicks, keys |-> [t \in 1..MaxDeathTicks |-> {"kUp", "kDown"}],
           W |-> {20, 21}, H |-> {15, 20}, N |-> {0}]

\* Cut foods only, around the player
BCut == [ticks |-> MaxCutTicks, keys |-> [t \in 1..MaxCutTicks |-> Directions],
         W |-> {10, 11}, H |-> {15, 16}, N |-> {15}]

\* a game longer than a food's lifetime: the player moves up into (11,15),
\* left into (10,15) and then up its column, where no food is drawn; the
\* foods are drawn in the player's first cells and in the enemy's column
BAge == [ticks |-> MaxAgeTicks,
         keys |-> [t \in 1..MaxAgeTicks |->
                     IF t = 2 THEN {"kLeft"} ELSE IF t = 3 THEN {"kUp"} ELSE {"none"}],
         W |-> {11, 21}, H |-> {5, 15}, N |-> {0}]

\* a long game: the player can reverse into itself in the first two
\* iterations and afterwards heads right or down, towards the enemy; the
\* foods are in the enemy's column
\* SpecMeet: the player goes 7 ticks up, 7 right, 7 down and then right, and
\* enters cell (21,16) in the tick in which the enemy, going up its column,
\* enters it too; the foods are drawn in that cell and in (21,5)
BMeet == [ticks |-> MaxMeetTicks,
          keys |-> [t \in 1..MaxMeetTicks |->
                      IF t <= 7 THEN {"kUp"}
                      ELSE IF t <= 14 THEN {"kRight"}
                      ELSE IF t <= 21 THEN {"kDown"}
                      ELSE {"kRight"}],
          W |-> {21}, H |-> {5, 16}, N |-> {0, 30}]

\* SpecFull: the draws of PlaceFood are the player's start cell and the cell
\* above it, so that after one tick upwards both are cells of the player
BFull == [ticks |-> MaxFullTicks,
          keys |-> [t \in 1..MaxFullTicks |-> Directions \cup {"quit"}],
          W |-> {11}, H |-> {15, 16}, N |-> {0, 15, 30}]

\* SpecNav: the foods are drawn in the sixteen cells up and left of the
\* enemy's start, the enemy's own cells excepted by PlaceFood
BNav == [ticks |-> MaxNavTicks,
         keys |-> [t \in 1..MaxNavTicks |-> {"none", "quit"}],
         W |-> {19, 20, 21, 22}, H |-> {19, 20, 21, 22}, N |-> {0}]

BLong == [ticks |-> MaxLongTicks,
          keys |-> [t \in 1..MaxLongTicks |->
                      IF t <= 2 THEN {"kUp", "kDown", "kRight"} ELSE {"kDown", "kRight"}],
          W |-> {21}, H |-> {0, 20}, N |-> {0}]

----------------------------------------------------------------------------
(* Snake *)

Min(a, b) == IF a < b THEN a ELSE b

Abs(a) == IF a < 0 THEN 0 - a ELSE a

InSeq(c, s) == \E i \in 1..Len(s) : s[i] = c

PushBack(s, cell) == [s EXCEPT !.body = Append(@, cell), !.size = @ + 1]

SnakeCtor(init_x, init_y, speed) ==
  LET s0 == [head_x |-> init_x * Unit, head_y |-> init_y * Unit,
             direction |-> "kUp", speed |-> speed, size |-> 1, alive |-> TRUE,
             body |-> <<>>, growing |-> FALSE, cutting |-> FALSE]
      p1 == <<s0.head_x \div Unit, (s0.head_y + Unit) \div Unit>>
      p2 == <<p1[1], p1[2] + 1>>
  IN  PushBack(PushBack(s0, p1), p2)

\* static_cast<int>(h): truncation towards zero
ToInt(h) == IF h >= 0 THEN h \div Unit ELSE -((-h) \div Unit)

HeadCell(s) == <<ToInt(s.head_x), ToInt(s.head_y)>>

\* fmod(a, b) for b > 0: the remainder has the sign of a
Fmod(a, b) == IF a >= 0 THEN a % b ELSE -((-a) % b)

UpdateHead(s) ==
  LET hx == CASE s.direction = "kLeft"  -> s.head_x - s.speed
              [] s.direction = "kRight" -> s.head_x + s.speed
              [] OTHER -> s.head_x
      hy == CASE s.direction = "kUp"   -> s.head_y - s.speed
              [] s.direction = "kDown" -> s.head_y + s.speed
              [] OTHER -> s.head_y
  IN  [s EXCEPT !.head_x = Fmod(hx + kGridWidth * Unit, kGridWidth * Unit),
                !.head_y = Fmod(hy + kGridHeight * Unit, kGridHeight * Unit)]

BodyPush(s, prev_cell) == [s EXCEPT !.body = Append(@, prev_cell)]

BodyTail(s) ==
  IF ~s.growing THEN [s EXCEPT !.body = Tail(@)]
  ELSE [s EXCEPT !.growing = FALSE, !.size = @ + 1]

CutCount(s) == Min(kCutLength, s.size)

BodyCut(s) ==
  [s EXCEPT !.body = SubSeq(@, CutCount(s) + 1, Len(@)),
            !.size = @ - CutCount(s), !.cutting = FALSE]

\* mutant: alive is assigned the outcome of the check
CheckDied_Assigns(s) == [s EXCEPT !.alive = ~InSeq(HeadCell(s), s.body)]

CheckDied(s) == [s EXCEPT !.alive = IF InSeq(HeadCell(s), s.body) THEN FALSE ELSE @]

GrowBody(s) == [s EXCEPT !.growing = TRUE]

CutBody(s) == [s EXCEPT !.cutting = TRUE]

\* mutant: only the head's cell is compared, the body is not scanned
SnakeCell_HeadOnly(s, x, y) == <<x, y>> = HeadCell(s)

SnakeCell(s, x, y) == (<<x, y>> = HeadCell(s)) \/ InSeq(<<x, y>>, s.body)

----------------------------------------------------------------------------
(* Food, FoodManager *)

FoodCtor == [x |-> -1, y |-> -1, type |-> "kNormal", counter |-> MAX_COUNT]

\* mutant: the type is reset one Count late
FoodCount_Late(f) ==
  LET c == f.counter - 1
  IN  [f EXCEPT !.counter = c, !.type = IF c < 0 THEN "kNormal" ELSE @]

FoodCount(f) ==
  LET c == f.counter - 1
  IN  [f EXCEPT !.counter = c, !.type = IF c <= 0 THEN "kNormal" ELSE @]

FoodSetPos(f, x, y) == [f EXCEPT !.x = x, !.y = y]

\* mutant: the relocation leaves the lifetime counter as it is
FoodSetType_KeepsCounter(f, t) == [f EXCEPT !.type = t]

FoodSetType(f, t) == [f EXCEPT !.type = t, !.counter = MAX_COUNT]

\* mutant: the manager creates one food fewer than Game::Game places
FoodManagerCtor_One == <<FoodCtor>>

\* mutant: the manager creates one food more than Game::Game places
FoodManagerCtor_Three == <<FoodCtor, FoodCtor, FoodCtor>>

FoodManagerCtor == <<FoodCtor, FoodCtor>>

CountAll(fs) == [i \in 1..Len(fs) |-> FoodCount(fs[i])]

RECURSIVE CheckFoodFrom_Last(_, _, _, _)
\* mutant: the scan goes on after a match and returns the last one
CheckFoodFrom_Last(fs, x, y, i) ==
  IF i >= Len(fs) THEN -1
  ELSE LET later == CheckFoodFrom_Last(fs, x, y, i + 1)
       IN  IF later # -1 THEN later
           ELSE IF fs[i + 1].x = x /\ fs[i + 1].y = y THEN i
           ELSE -1

RECURSIVE CheckFoodFrom(_, _, _, _)
\* the loop of lines 48-53: i is the code's index, from 0; -1 is "not found"
CheckFoodFrom(fs, x, y, i) ==
  IF i >= Len(fs) THEN -1
  ELSE IF fs[i + 1].x = x /\ fs[i + 1].y = y THEN i
  ELSE CheckFoodFrom(fs, x, y, i + 1)

CheckFood(fs, x, y) == CheckFoodFrom(fs, x, y, 0)

GetType(fs, n) == fs[n + 1].type

TypeOf(n) ==
  IF n >= 0 /\ n < kBoostBelow THEN "kBoost"
  ELSE IF n >= kBoostBelow /\ n < kCutBelow THEN "kCut"
  ELSE "kNormal"

----------------------------------------------------------------------------
(* Snake::Navigate *)

RECURSIVE NearestFrom_LastOnTies(_, _, _, _, _, _)
\* mutant: a food as near as the nearest so far replaces it
NearestFrom_LastOnTies(fs, x, y, i, index, min_distance) ==
  IF i > Len(fs) THEN index
  ELSE LET distance == Abs(fs[i].x - x) + Abs(fs[i].y - y)
       IN  IF distance <= min_distance
           THEN NearestFrom_LastOnTies(fs, x, y, i + 1, i - 1, distance)
           ELSE NearestFrom_LastOnTies(fs, x, y, i + 1, index, min_distance)

RECURSIVE NearestFrom(_, _, _, _, _, _)
\* the loop of lines 114-121: i is the next 1-based position to look at
NearestFrom(fs, x, y, i, index, min_distance) ==
  IF i > Len(fs) THEN index
  ELSE LET distance == Abs(fs[i].x - x) + Abs(fs[i].y - y)
       IN  IF distance < min_distance
           THEN NearestFrom(fs, x, y, i + 1, i - 1, distance)
           ELSE NearestFrom(fs, x, y, i + 1, index, min_distance)

Nearest(fs, x, y) == NearestFrom(fs, x, y, 1, 0, kGridWidth + kGridHeight)

\* mutant: without the else block for a food level with the head
Candidate_NoLevel(direction, fx, fy, x, y) ==
  IF (direction = "kUp" /\ fy > y) \/ (direction = "kDown" /\ fy < y)
  THEN (IF fx < x THEN "kLeft" ELSE "kRight")
  ELSE IF (direction = "kLeft" /\ fx > x) \/ (direction = "kRight" /\ fx < x)
  THEN (IF fy < y THEN "kUp" ELSE "kDown")
  ELSE direction

Candidate(direction, fx, fy, x, y) ==
  IF (direction = "kUp" /\ fy > y) \/ (direction = "kDown" /\ fy < y)
  THEN (IF fx < x THEN "kLeft" ELSE "kRight")
  ELSE IF (direction = "kLeft" /\ fx > x) \/ (direction = "kRight" /\ fx < x)
  THEN (IF fy < y THEN "kUp" ELSE "kDown")
  ELSE IF fx = x /\ direction \in {"kLeft", "kRight"}
  THEN (IF fy > y THEN "kDown" ELSE "kUp")
  ELSE IF fy = y /\ direction \in {"kDown", "kUp"}
  THEN (IF fx > x THEN "kRight" ELSE "kLeft")
  ELSE direction

\* the switch has no break: from the matching case on, every assignment runs
NextDirectionCases == <<"kUp", "kRight", "kDown", "kLeft">>

NextDirectionAssigns == <<"kRight", "kDown", "kLeft", "kRight">>

RECURSIVE FallThrough(_, _)
FallThrough(dir, k) ==
  IF k > Len(NextDirectionAssigns) THEN dir
  ELSE FallThrough(NextDirectionAssigns[k], k + 1)

NextDirection(dir) ==
  LET k == CHOOSE i \in 1..Len(NextDirectionCases) : NextDirectionCases[i] = dir
  IN  FallThrough(dir, k)

NextPos(dir, x, y) ==
  CASE dir = "kUp"    -> <<x, y - 1>>
    [] dir = "kDown"  -> <<x, y + 1>>
    [] dir = "kLeft"  -> <<x - 1, y>>
    [] dir = "kRight" -> <<x + 1, y>>

RECURSIVE Avoid(_, _, _)
\* the loop of lines 149-158: i probes done so far
Avoid(s, dir, i) ==
  IF i >= kProbes THEN dir
  ELSE LET next == NextPos(dir, HeadCell(s)[1], HeadCell(s)[2])
       IN  IF ~SnakeCell(s, next[1], next[2]) THEN dir
           ELSE Avoid(s, NextDirection(dir), i + 1)

Navigate(s, fs) ==
  LET x == HeadCell(s)[1]
      y == HeadCell(s)[2]
      food == fs[Nearest(fs, x, y) + 1]
      dir == Candidate(s.direction, food.x, food.y, x, y)
  IN  [s EXCEPT !.direction = Avoid(s, dir, 0)]

----------------------------------------------------------------------------
(* Game: the effects of a consumed food, lines 148-162 and 172-186 *)

EffectOnSnake(s, type) ==
  CASE type = "kNormal" ->
         [GrowBody(s) EXCEPT !.speed = IF s.speed < MAX_SPEED THEN @ + kNormalSpeedUp ELSE @]
    [] type = "kBoost" -> [GrowBody(s) EXCEPT !.speed = @ + kBoostSpeedUp]
    [] type = "kCut" -> CutBody(GrowBody(s))

EffectOnScore(sc, type) == IF type = "kNormal" THEN sc + kNormalScore ELSE sc + kSpecialScore

----------------------------------------------------------------------------
(* State after the member initialisers of Game::Game and the two
   scores.push_back: the constructor is about to call PlaceFood(0). *)

Init ==
  /\ snake = SnakeCtor(kGridWidth \div 2 - kInitOffset, kGridHeight \div 2, kSnakeSpeed)
  /\ enemy = SnakeCtor(kGridWidth \div 2 + kInitOffset, kGridHeight \div 2 + kInitOffset,
                       kEnemySpeed)
  /\ foods = FoodManagerCtor
  /\ foods_whole = FoodManagerCtor
  /\ scores = <<0, 1>>
  /\ mtx = "none"
  /\ score_mtx = "none"
  /\ running = TRUE
  /\ sim_pc = "place"
  /\ sim_who = "ctor"
  /\ sim_index = 0
  /\ sim_arg = <<>>
  /\ ticks = 0
  /\ report = <<>>
  /\ r_pc = "off"
  /\ r_who = "snake"
  /\ r_foods = <<>>
  /\ r_body = <<>>
  /\ r_head = <<>>
  /\ r_title = <<>>

Who(w) == IF w = "snake" THEN snake ELSE enemy

SetWho(w, val) ==
  IF w = "snake" THEN snake' = val /\ UNCHANGED enemy
  ELSE enemy' = val /\ UNCHANGED snake

----------------------------------------------------------------------------
(* The simulation thread *)

\* mutant: the drawn cell is taken whether or not a snake is in it
PlaceFood_AnyCell(B) ==
  /\ sim_pc = "place"
  /\ \E x \in B.W, y \in B.H, n \in B.N :
       /\ sim_arg' = [x |-> x, y |-> y, type |-> TypeOf(n)]
       /\ sim_pc' = "upd_lock"
  /\ UNCHANGED <<snake, enemy, foods, scores, mtx, score_mtx, running, sim_who,
                 sim_index, ticks, foods_whole, report, rvars>>

\* Game::PlaceFood, one iteration of while (true): lines 107-123 up to the call
PlaceFood(B) ==
  /\ sim_pc = "place"
  /\ \E x \in B.W, y \in B.H :
       IF ~SnakeCell(snake, x, y) /\ ~SnakeCell(enemy, x, y)
       THEN \E n \in B.N :
              /\ sim_arg' = [x |-> x, y |-> y, type |-> TypeOf(n)]
              /\ sim_pc' = "upd_lock"
       ELSE UNCHANGED <<sim_arg, sim_pc>>
  /\ UNCHANGED <<snake, enemy, foods, scores, mtx, score_mtx, running, sim_who,
                 sim_index, ticks, foods_whole, report, rvars>>

\* FoodManager::UpdateFood: the lock_guard's constructor
UpdateFoodLock ==
  /\ sim_pc = "upd_lock"
  /\ mtx = "none"
  /\ mtx' = "sim"
  /\ sim_pc' = "upd_pos"
  /\ UNCHANGED <<snake, enemy, foods, scores, score_mtx, running, sim_who, sim_index,
                 sim_arg, ticks, foods_whole, report, rvars>>

\* Food::Update, lines 22-23
UpdateFoodPos ==
  /\ sim_pc = "upd_pos"
  /\ foods' = [foods EXCEPT ![sim_index + 1] = FoodSetPos(@, sim_arg.x, sim_arg.y)]
  /\ sim_pc' = "upd_type"
  /\ UNCHANGED <<snake, enemy, scores, mtx, score_mtx, running, sim_who, sim_index,
                 sim_arg, ticks, foods_whole, report, rvars>>

\* where PlaceFood returns to: the constructor's loop, or the end of the
\* if (index != -1) block of Game::Update, where score_mtx is released
AfterPlaceFood ==
  CASE sim_who = "ctor" ->
         [pc |-> IF sim_index + 1 < target_food_number THEN "place" ELSE "run",
          who |-> "ctor", index |-> sim_index + 1, score_mtx |-> score_mtx]
    [] sim_who = "snake" ->
         [pc |-> "check_lock", who |-> "enemy", index |-> sim_index, score_mtx |-> "none"]
    [] sim_who = "enemy" ->
         [pc |-> "input", who |-> "snake", index |-> sim_index, score_mtx |-> "none"]

\* Food::Update, lines 24-25, and the returns of UpdateFood and PlaceFood
UpdateFoodType ==
  /\ sim_pc = "upd_type"
  /\ foods' = [foods EXCEPT ![sim_index + 1] = FoodSetType(@, sim_arg.type)]
  /\ foods_whole' = foods'
  /\ mtx' = "none"
  /\ sim_pc' = AfterPlaceFood.pc
  /\ sim_who' = AfterPlaceFood.who
  /\ sim_index' = AfterPlaceFood.index
  /\ score_mtx' = AfterPlaceFood.score_mtx
  /\ sim_arg' = <<>>
  /\ UNCHANGED <<snake, enemy, scores, running, ticks, report, rvars>>

\* Game::Run, lines 72-76: the render thread starts
RunStart ==
  /\ sim_pc = "run"
  /\ running' = TRUE
  /\ r_pc' = "r_lock"
  /\ sim_pc' = "input"
  /\ sim_who' = "snake"
  /\ UNCHANGED <<snake, enemy, foods, scores, mtx, score_mtx, sim_index, sim_arg, ticks,
                 foods_whole, report, r_who, r_foods, r_body, r_head, r_title>>

\* Controller::HandleInput as the specification's section 6 gives it: it may
\* set running to false or change the player's heading
HandleInput(run, s, key) ==
  [running |-> IF key = "quit" THEN FALSE ELSE run,
   snake |-> IF key \in Directions THEN [s EXCEPT !.direction = key] ELSE s]

\* the keys tried in iteration number ticks+1: the last iteration the bound allows quits
Keys(B) == IF ticks + 1 < B.ticks THEN B.keys[ticks + 1] ELSE {"quit"}

\* Game::Run, while (running) and line 83
RunInput(B) ==
  /\ sim_pc = "input"
  /\ IF running
     THEN \E key \in Keys(B) :
            /\ running' = HandleInput(running, snake, key).running
            /\ snake' = HandleInput(running, snake, key).snake
            /\ ticks' = ticks + 1
            /\ sim_pc' = "nav_lock"
     ELSE /\ sim_pc' = "report_lock"
          /\ UNCHANGED <<running, snake, ticks>>
  /\ UNCHANGED <<enemy, foods, scores, mtx, score_mtx, sim_who, sim_index, sim_arg,
                 foods_whole, report, rvars>>

\* FoodManager::GetFoods called by Run, line 86: the lock_guard's constructor
NavigateLock ==
  /\ sim_pc = "nav_lock"
  /\ mtx = "none"
  /\ mtx' = "sim"
  /\ sim_pc' = "nav_copy"
  /\ UNCHANGED <<snake, enemy, foods, scores, score_mtx, running, sim_who, sim_index,
                 sim_arg, ticks, foods_whole, report, rvars>>

\* GetFoods returns its copy and enemy.Navigate runs on it
NavigateCopy ==
  /\ sim_pc = "nav_copy"
  /\ mtx' = "none"
  /\ enemy' = Navigate(enemy, foods)
  /\ sim_pc' = "update"
  /\ UNCHANGED <<snake, foods, scores, score_mtx, running, sim_who, sim_index,
                 sim_arg, ticks, foods_whole, report, rvars>>

\* mutant: Update's guard ends Run's loop when a snake is dead
GameUpdateEntry_EndsRun ==
  IF ~snake.alive \/ ~enemy.alive THEN "report_lock" ELSE "head"

\* mutant: the tick is skipped only when both snakes are dead
GameUpdateEntry_BothDead ==
  IF ~snake.alive /\ ~enemy.alive THEN "input" ELSE "head"

\* Game::Update, lines 127-129
GameUpdateEntry ==
  IF ~snake.alive \/ ~enemy.alive THEN "input" ELSE "head"

GameUpdate ==
  /\ sim_pc = "update"
  /\ sim_pc' = GameUpdateEntry
  /\ sim_who' = "snake"
  /\ UNCHANGED <<snake, enemy, foods, scores, mtx, score_mtx, running, sim_index,
                 sim_arg, ticks, foods_whole, report, rvars>>

\* mutant: food_manager.Count() is left out of the tick
AfterSnakeUpdate_NoCount ==
  IF sim_who = "snake" THEN [pc |-> "head", who |-> "enemy"]
  ELSE [pc |-> "check_lock", who |-> "snake"]

\* after Snake::Update of sim_who: the other snake's Update, or food_manager.Count()
AfterSnakeUpdate ==
  IF sim_who = "snake" THEN [pc |-> "head", who |-> "enemy"]
  ELSE [pc |-> "count_lock", who |-> "snake"]

\* mutant: UpdateBody is called whether or not the head's cell has changed
SnakeUpdateHead_AlwaysShifts ==
  /\ sim_pc = "head"
  /\ SetWho(sim_who, UpdateHead(Who(sim_who)))
  /\ sim_pc' = "push"
  /\ sim_arg' = HeadCell(Who(sim_who))
  /\ UNCHANGED <<foods, scores, mtx, score_mtx, running, sim_who, sim_index, ticks,
                 foods_whole, report, rvars>>

\* Snake::Update, lines 18-29; sim_arg keeps prev_cell
SnakeUpdateHead ==
  /\ sim_pc = "head"
  /\ LET s == Who(sim_who)
         moved == UpdateHead(s)
     IN  /\ SetWho(sim_who, moved)
         /\ IF HeadCell(moved) # HeadCell(s)
            THEN /\ sim_pc' = "push"
                 /\ sim_arg' = HeadCell(s)
                 /\ UNCHANGED sim_who
            ELSE /\ sim_pc' = AfterSnakeUpdate.pc
                 /\ sim_who' = AfterSnakeUpdate.who
                 /\ UNCHANGED sim_arg
  /\ UNCHANGED <<foods, scores, mtx, score_mtx, running, sim_index, ticks, foods_whole,
                 report, rvars>>

\* Snake::UpdateBody, line 65
SnakeBodyPush ==
  /\ sim_pc = "push"
  /\ SetWho(sim_who, BodyPush(Who(sim_who), sim_arg))
  /\ sim_pc' = "tail"
  /\ UNCHANGED <<foods, scores, mtx, score_mtx, running, sim_who, sim_index, sim_arg,
                 ticks, foods_whole, report, rvars>>

\* what body.erase(begin, begin + cut) can do when cut exceeds body.size():
\* undefined behaviour; the process is killed, or the vector is left empty
EraseOutcomes == {"killed", "emptied"}

\* Snake::UpdateBody, lines 67-80: the tail is erased or the snake grows, then the cut
SnakeBodyTail ==
  /\ sim_pc = "tail"
  /\ LET s == BodyTail(Who(sim_who))
     IN  IF ~s.cutting
         THEN SetWho(sim_who, s) /\ sim_pc' = "died"
         ELSE IF CutCount(s) <= Len(s.body)
         THEN SetWho(sim_who, BodyCut(s)) /\ sim_pc' = "died"
         ELSE \E o \in EraseOutcomes :
                IF o = "killed"
                THEN SetWho(sim_who, s) /\ sim_pc' = "killed"
                ELSE /\ SetWho(sim_who, [s EXCEPT !.body = <<>>, !.size = @ - CutCount(s),
                                                     !.cutting = FALSE])
                     /\ sim_pc' = "died"
  /\ UNCHANGED <<foods, scores, mtx, score_mtx, running, sim_who, sim_index, sim_arg,
                 ticks, foods_whole, report, rvars>>

\* mutant: a head on a cell of the other snake kills as well
SnakeCheckDied_OtherSnake ==
  /\ sim_pc = "died"
  /\ LET s == Who(sim_who)
         other == IF sim_who = "snake" THEN enemy ELSE snake
     IN  SetWho(sim_who, [CheckDied(s) EXCEPT
                            !.alive = @ /\ ~SnakeCell(other, HeadCell(s)[1], HeadCell(s)[2])])
  /\ sim_pc' = AfterSnakeUpdate.pc
  /\ sim_who' = AfterSnakeUpdate.who
  /\ sim_arg' = <<>>
  /\ UNCHANGED <<foods, scores, mtx, score_mtx, running, sim_index, ticks, foods_whole,
                 report, rvars>>

\* Snake::UpdateBody, lines 82-87, and the return of Snake::Update
SnakeCheckDied ==
  /\ sim_pc = "died"
  /\ SetWho(sim_who, CheckDied(Who(sim_who)))
  /\ sim_pc' = AfterSnakeUpdate.pc
  /\ sim_who' = AfterSnakeUpdate.who
  /\ sim_arg' = <<>>
  /\ UNCHANGED <<foods, scores, mtx, score_mtx, running, sim_index, ticks, foods_whole,
                 report, rvars>>

\* FoodManager::Count, line 73: the lock_guard's constructor
CountLock ==
  /\ sim_pc = "count_lock"
  /\ mtx = "none"
  /\ mtx' = "sim"
  /\ sim_pc' = "count"
  /\ UNCHANGED <<snake, enemy, foods, scores, score_mtx, running, sim_who, sim_index,
                 sim_arg, ticks, foods_whole, report, rvars>>

\* FoodManager::Count, lines 74-77
CountFoods ==
  /\ sim_pc = "count"
  /\ foods' = CountAll(foods)
  /\ foods_whole' = foods'
  /\ mtx' = "none"
  /\ sim_pc' = "check_lock"
  /\ sim_who' = "snake"
  /\ UNCHANGED <<snake, enemy, scores, score_mtx, running, sim_index, sim_arg, ticks,
                 report, rvars>>

\* FoodManager::CheckFood called by Game::Update, lines 144 and 167: the lock_guard
CheckFoodLock ==
  /\ sim_pc = "check_lock"
  /\ mtx = "none"
  /\ mtx' = "sim"
  /\ sim_pc' = "check"
  /\ UNCHANGED <<snake, enemy, foods, scores, score_mtx, running, sim_who, sim_index,
                 sim_arg, ticks, foods_whole, report, rvars>>

\* where Game::Update goes when sim_who's head is on no food
AfterNoFood ==
  IF sim_who = "snake" THEN [pc |-> "check_lock", who |-> "enemy"]
  ELSE [pc |-> "input", who |-> "snake"]

\* CheckFood's scan and return, and if (index != -1)
CheckFoodScan ==
  /\ sim_pc = "check"
  /\ mtx' = "none"
  /\ sim_index' = CheckFood(foods, HeadCell(Who(sim_who))[1], HeadCell(Who(sim_who))[2])
  /\ IF sim_index' # -1
     THEN sim_pc' = "score_lock" /\ UNCHANGED sim_who
     ELSE sim_pc' = AfterNoFood.pc /\ sim_who' = AfterNoFood.who
  /\ UNCHANGED <<snake, enemy, foods, scores, score_mtx, running, sim_arg, ticks,
                 foods_whole, report, rvars>>

\* Game::Update, lines 146 and 169: std::lock_guard lock(score_mtx)
ScoreLock ==
  /\ sim_pc = "score_lock"
  /\ score_mtx = "none"
  /\ score_mtx' = "sim"
  /\ sim_pc' = "type_lock"
  /\ UNCHANGED <<snake, enemy, foods, scores, mtx, running, sim_who, sim_index,
                 sim_arg, ticks, foods_whole, report, rvars>>

\* FoodManager::GetType, line 58
GetTypeLock ==
  /\ sim_pc = "type_lock"
  /\ mtx = "none"
  /\ mtx' = "sim"
  /\ sim_pc' = "type"
  /\ UNCHANGED <<snake, enemy, foods, scores, score_mtx, running, sim_who, sim_index,
                 sim_arg, ticks, foods_whole, report, rvars>>

\* FoodManager::GetType, line 59
GetTypeRead ==
  /\ sim_pc = "type"
  /\ mtx' = "none"
  /\ sim_arg' = GetType(foods, sim_index)
  /\ sim_pc' = "effect"
  /\ UNCHANGED <<snake, enemy, foods, scores, score_mtx, running, sim_who, sim_index,
                 ticks, foods_whole, report, rvars>>

\* mutant: the consumption is credited to the other snake's score
ScoreSlot_Other(w) == IF w = "snake" THEN 2 ELSE 1

\* scores[0] is the player's, scores[1] the enemy's (1-based here)
ScoreSlot(w) == IF w = "snake" THEN 1 ELSE 2

\* Game::Update, lines 148-162 and 172-186
ApplyEffect ==
  /\ sim_pc = "effect"
  /\ SetWho(sim_who, EffectOnSnake(Who(sim_who), sim_arg))
  /\ scores' = [scores EXCEPT ![ScoreSlot(sim_who)] = EffectOnScore(@, sim_arg)]
  /\ sim_pc' = "place"
  /\ sim_arg' = <<>>
  /\ UNCHANGED <<foods, mtx, score_mtx, running, sim_who, sim_index, ticks,
                 foods_whole, report, rvars>>

\* Game::GetScore called by main, line 192
ReportLock ==
  /\ sim_pc = "report_lock"
  /\ score_mtx = "none"
  /\ score_mtx' = "sim"
  /\ sim_pc' = "report"
  /\ UNCHANGED <<snake, enemy, foods, scores, mtx, running, sim_who, sim_index,
                 sim_arg, ticks, foods_whole, report, rvars>>

\* Game::GetScore, lines 193-196; main prints and returns, which ends the process
ReportCopy ==
  /\ sim_pc = "report"
  /\ report' = scores
  /\ score_mtx' = "none"
  /\ sim_pc' = "done"
  /\ UNCHANGED <<snake, enemy, foods, scores, mtx, running, sim_who, sim_index,
                 sim_arg, ticks, foods_whole, rvars>>

----------------------------------------------------------------------------
(* The render thread: Renderer::operator() and Renderer::Render.  It runs
   until the process ends. *)

ProcessRuns == sim_pc \notin {"done", "killed"}

\* mutant: GetFoods without the lock_guard
RenderLock_NoGuard ==
  /\ r_pc = "r_lock"
  /\ ProcessRuns
  /\ mtx' = mtx
  /\ r_pc' = "r_copy"
  /\ r_body' = <<>>
  /\ r_head' = <<>>
  /\ UNCHANGED <<simvars_but_mtx, r_who, r_foods, r_title>>

\* FoodManager::GetFoods called by Render, line 83: the lock_guard's constructor
RenderLock ==
  /\ r_pc = "r_lock"
  /\ ProcessRuns
  /\ mtx = "none"
  /\ mtx' = "render"
  /\ r_pc' = "r_copy"
  /\ r_body' = <<>>
  /\ r_head' = <<>>
  /\ UNCHANGED <<simvars_but_mtx, r_who, r_foods, r_title>>

\* mutant: the copy is made and the lock is kept
RenderCopy_KeepsLock ==
  /\ r_pc = "r_copy"
  /\ ProcessRuns
  /\ r_foods' = foods
  /\ mtx' = mtx
  /\ r_pc' = "r_body"
  /\ r_who' = "snake"
  /\ UNCHANGED <<simvars_but_mtx, r_body, r_head, r_title>>

\* GetFoods returns its copy, which is assigned to Renderer::foods
RenderCopy ==
  /\ r_pc = "r_copy"
  /\ ProcessRuns
  /\ r_foods' = foods
  /\ mtx' = "none"
  /\ r_pc' = "r_body"
  /\ r_who' = "snake"
  /\ UNCHANGED <<simvars_but_mtx, r_body, r_head, r_title>>

\* mutant: the snake is read under the food lock
RenderBody_Locked ==
  /\ r_pc = "r_body"
  /\ ProcessRuns
  /\ mtx = "none"
  /\ mtx' = "render"
  /\ r_body' = Who(r_who).body
  /\ r_head' = <<>>
  /\ r_pc' = "r_head"
  /\ UNCHANGED <<simvars_but_mtx, r_who, r_foods, r_title>>

\* Render, lines 103-107 and 124-128: the loop over snake.body / enemy.body
RenderBody ==
  /\ r_pc = "r_body"
  /\ ProcessRuns
  /\ r_body' = Who(r_who).body
  /\ r_head' = <<>>
  /\ r_pc' = "r_head"
  /\ UNCHANGED <<simvars, r_who, r_foods, r_title>>

\* after the enemy's head: line 56, the title is due or not
AfterRenderHead ==
  IF r_who = "snake" THEN {[pc |-> "r_body", who |-> "enemy"]}
  ELSE {[pc |-> "r_title", who |-> "snake"], [pc |-> "r_lock", who |-> "snake"]}

\* Render, lines 110-117 and 131-138: head_x, head_y and alive are read
RenderHead ==
  /\ r_pc = "r_head"
  /\ ProcessRuns
  /\ r_head' = <<HeadCell(Who(r_who)), Who(r_who).alive>>
  /\ \E nxt \in AfterRenderHead : r_pc' = nxt.pc /\ r_who' = nxt.who
  /\ UNCHANGED <<simvars, r_foods, r_body, r_title>>

\* mutant: the counters are cleared once they are shown
RenderTitle_Resets ==
  /\ r_pc = "r_title"
  /\ ProcessRuns
  /\ r_title' = scores
  /\ scores' = <<0, 0>>
  /\ r_pc' = "r_lock"
  /\ UNCHANGED <<snake, enemy, foods, mtx, score_mtx, running, sim_pc, sim_who,
                 sim_index, sim_arg, ticks, foods_whole, report, r_who, r_foods,
                 r_body, r_head>>

\* Renderer::operator(), line 57: *scores[0] and *scores[1] are read
RenderTitle ==
  /\ r_pc = "r_title"
  /\ ProcessRuns
  /\ r_title' = scores
  /\ r_pc' = "r_lock"
  /\ UNCHANGED <<simvars, r_who, r_foods, r_body, r_head>>

----------------------------------------------------------------------------

SimNext(B) ==
  \/ PlaceFood(B)
  \/ UpdateFoodLock
  \/ UpdateFoodPos
  \/ UpdateFoodType
  \/ RunStart
  \/ RunInput(B)
  \/ NavigateLock
  \/ NavigateCopy
  \/ GameUpdate
  \/ SnakeUpdateHead
  \/ SnakeBodyPush
  \/ SnakeBodyTail
  \/ SnakeCheckDied
  \/ CountLock
  \/ CountFoods
  \/ CheckFoodLock
  \/ CheckFoodScan
  \/ ScoreLock
  \/ GetTypeLock
  \/ GetTypeRead
  \/ ApplyEffect
  \/ ReportLock
  \/ ReportCopy

RenderNext ==
  \/ RenderLock
  \/ RenderCopy
  \/ RenderBody
  \/ RenderHead
  \/ RenderTitle

Next == SimNext(BConc) \/ RenderNext

Spec == Init /\ [][Next]_vars

SpecFair == Spec /\ WF_vars(SimNext(BConc)) /\ WF_vars(RenderNext)

NextGame == SimNext(BGame)

SpecGame == Init /\ [][NextGame]_vars

NextBoost == SimNext(BBoost)

SpecBoost == Init /\ [][NextBoost]_vars

NextDeath == SimNext(BDeath)

SpecDeath == Init /\ [][NextDeath]_vars

NextLong == SimNext(BLong)

SpecLong == Init /\ [][NextLong]_vars

NextCut == SimNext(BCut)

SpecCut == Init /\ [][NextCut]_vars

NextAge == SimNext(BAge)

SpecAge == Init /\ [][NextAge]_vars

NextMeet == SimNext(BMeet)

SpecMeet == Init /\ [][NextMeet]_vars

NextNav == SimNext(BNav)

SpecNav == Init /\ [][NextNav]_vars

NextFull == SimNext(BFull)

\* the random engine is fair: a draw that is possible is made in the end
SpecFull == Init /\ [][NextFull]_vars /\ WF_vars(NextFull)

----------------------------------------------------------------------------
(* Claims *)

SimWaitsFood == sim_pc \in {"upd_lock", "nav_lock", "count_lock", "check_lock", "type_lock"}

SimInFoodManager == sim_pc \in {"upd_pos", "upd_type", "nav_copy", "count", "check", "type"}

SimWaitsScore == sim_pc \in {"score_lock", "report_lock"}

\* C1: every read and every write of the score counters is made by a thread
\* that holds score_mtx: the tick's write (ApplyEffect), main's read through
\* GetScore (ReportCopy) and the render thread's read for the window title.
C1_ScoreAccessUnderLock ==
  /\ sim_pc \in {"effect", "report"} => score_mtx = "sim"
  /\ (r_pc = "r_title" /\ ProcessRuns) => score_mtx = "render"

\* C2: Renderer::foods changes only by GetFoods' copy, and the copy is the
\* FoodManager's sequence as the last whole UpdateFood or Count left it (never
\* a Food whose position is new and whose type and counter are old); the
\* sequence Navigate is handed is whole as well.
C2_SnapshotWhole ==
  [][ /\ (r_foods' # r_foods => (r_pc = "r_copy" /\ r_foods' = foods_whole))
      /\ (sim_pc = "nav_copy" => foods = foods_whole) ]_vars

\* C2 witness: the render thread holds a snapshot while UpdateFood has written
\* the new position of a slot but not yet its type and counter, and the
\* snapshot's slot is not the half-written one.
C2_Witness ==
  /\ r_foods # <<>>
  /\ sim_pc = "upd_type"
  /\ foods # foods_whole
  /\ r_foods[sim_index + 1] # foods[sim_index + 1]

\* the steps in which the simulation thread takes FoodManager::mtx
AcquireFood == UpdateFoodLock \/ NavigateLock \/ CountLock \/ CheckFoodLock \/ GetTypeLock

\* FoodManager::mtx is held exactly inside a FoodManager member function, the
\* render thread never takes score_mtx, and a thread that holds mtx is at a
\* step that waits for nothing (so no cycle of waiting threads can close)
C3_LockInv ==
  /\ mtx = "sim" <=> SimInFoodManager
  /\ mtx = "render" <=> r_pc = "r_copy"
  /\ score_mtx # "render"
  /\ score_mtx = "sim" => sim_pc \notin {"score_lock", "report_lock"}
  /\ (SimWaitsFood \/ SimWaitsScore) => mtx # "sim"
  /\ r_pc = "r_lock" => mtx # "render"

SimInSnakeUpdate == sim_pc \in {"head", "push", "tail", "died"}

\* the player snake as Game::Game constructs it
PlayerCtor == SnakeCtor(kGridWidth \div 2 - kInitOffset, kGridHeight \div 2, kSnakeSpeed)

\* C4: the render thread reads a snake's body, head and alive flag holding no
\* lock, and the simulation thread runs Snake::Update holding no lock, so
\* nothing orders the reads against the writes.
C4_SnakeUnlocked ==
  /\ (r_pc \in {"r_body", "r_head"} /\ ProcessRuns) => (mtx # "render" /\ score_mtx # "render")
  /\ SimInSnakeUpdate => (mtx # "sim" /\ score_mtx # "sim")

\* C4 witness: Render has drawn the player with the body of before the tick
\* and the head of after it (a pair the player has at no tick boundary), and
\* the player's Update is still before its push_back.
C4_Witness ==
  /\ r_who = "enemy"
  /\ r_pc = "r_body"
  /\ r_body = PlayerCtor.body
  /\ r_head = <<HeadCell(UpdateHead(PlayerCtor)), TRUE>>
  /\ HeadCell(UpdateHead(PlayerCtor)) # HeadCell(PlayerCtor)
  /\ r_body # BodyTail(BodyPush(UpdateHead(PlayerCtor), HeadCell(PlayerCtor))).body
  /\ sim_who = "snake"
  /\ sim_pc = "push"

\* C5: a step of the render thread changes no field of either snake, no food
\* of the FoodManager and no score.
C5_RenderOnlyReads ==
  [][ RenderNext => UNCHANGED <<snake, enemy, foods, scores>> ]_vars

\* C5 witness: the render thread has drawn a frame and shown the title while
\* the simulation has consumed a food and placed it anew.
C5_Witness ==
  /\ r_foods # <<>>
  /\ r_head # <<>>
  /\ r_title # <<>>
  /\ scores # <<0, 1>>
  /\ foods # r_foods

\* a snake is dead
Dead == ~snake.alive \/ ~enemy.alive

\* where the simulation thread is in an iteration of Run's loop before
\* Game::Update has passed its guard; with a dead snake, an iteration later
\* than the one that recorded the death
LaterTickPcs == {"input", "nav_lock", "nav_copy", "update"}

\* a snake with its heading left out
ButHeading(s) == [s EXCEPT !.direction = "kUp"]

\* C6 as stated: once a snake is dead, an iteration of Run's loop ends
\* without entering the snakes' Update and changes no field of either snake,
\* the heading included.
C6_FrozenOnDeath ==
  [][ (Dead /\ sim_pc \in LaterTickPcs) =>
        /\ snake' = snake
        /\ enemy' = enemy
        /\ sim_pc' \in LaterTickPcs \cup {"report_lock"} ]_vars

\* C6, amended: once a snake is dead, an iteration of Run's loop ends without
\* entering the snakes' Update and changes no field of either snake but the
\* heading (HandleInput and Navigate run before Game::Update's guard).
C6_FrozenButHeading ==
  [][ (Dead /\ sim_pc \in LaterTickPcs) =>
        /\ ButHeading(snake') = ButHeading(snake)
        /\ ButHeading(enemy') = ButHeading(enemy)
        /\ sim_pc' \in LaterTickPcs \cup {"report_lock"} ]_vars

\* C6 witness: the player is dead and, in a later iteration, Navigate has
\* given the enemy another heading than it had; Game::Update is about to return.
C6_Witness ==
  /\ ~snake.alive
  /\ enemy.alive
  /\ sim_pc = "update"
  /\ ticks = MaxDeathTicks
  /\ enemy.direction = "kUp"
  /\ HeadCell(enemy)[1] # HeadCell(SnakeCtor(kGridWidth \div 2 + kInitOffset,
                                             kGridHeight \div 2 + kInitOffset, kEnemySpeed))[1]

\* a snake with alive false
DeadOf(s) == [s EXCEPT !.alive = FALSE]

\* what the member functions of Snake and the food effects make of s
SnakeOps(s) ==
  {UpdateHead(s), BodyPush(s, HeadCell(s)), BodyTail(BodyPush(s, HeadCell(s))),
   CheckDied(s), GrowBody(s), CutBody(s), Navigate(s, foods)}
  \cup {EffectOnSnake(s, type) : type \in {"kNormal", "kBoost", "kCut"}}
  \cup (IF CutCount(s) <= Len(s.body) THEN {BodyCut(s)} ELSE {})

\* C7: no step of the game makes a dead snake alive, and no member function
\* of Snake and no food effect, applied to a dead snake, returns a live one.
C7_AliveNeverReturns ==
  /\ [][ /\ ~snake.alive => ~snake'.alive
         /\ ~enemy.alive => ~enemy'.alive ]_vars
  /\ [](\A s \in {snake, enemy} : \A r \in SnakeOps(DeadOf(s)) : ~r.alive)

\* C7 witness: the player died, a later iteration ran, and the game is over
\* with the player still dead.
C7_Witness ==
  /\ ~snake.alive
  /\ ~InSeq(HeadCell(enemy), enemy.body)
  /\ sim_pc = "done"
  /\ ticks = MaxDeathTicks

\* snake w's head is on a cell of its own body
HitsItself(w) == InSeq(HeadCell(Who(w)), Who(w).body)

\* C8: a snake's alive flag goes from true to false in a step exactly when
\* the step is the end of that snake's UpdateBody (the head is in a new cell,
\* the body has been shifted and cut) and the head's cell is in the snake's
\* own body; where the other snake is does not matter.
C8_DiesExactlyOnOwnBody ==
  [][ \A w \in {"snake", "enemy"} :
        (Who(w).alive /\ ~Who(w)'.alive)
          <=> (Who(w).alive /\ sim_pc = "died" /\ sim_who = w /\ HitsItself(w)) ]_vars

\* C8 witness: the player has just died, its head on a cell of its own body
\* and on no cell of the enemy.
C8_Witness ==
  /\ ~snake.alive
  /\ HitsItself("snake")
  /\ ~SnakeCell(enemy, HeadCell(snake)[1], HeadCell(snake)[2])
  /\ sim_who = "enemy"
  /\ sim_pc = "head"

\* C9: the speed of each snake is at most MAX_SPEED.
C9_SpeedBounded ==
  /\ snake.speed <= MAX_SPEED
  /\ enemy.speed <= MAX_SPEED

\* C10: outside Snake::UpdateBody, the body list of each snake has size cells.
C10_SizeIsBodyLength ==
  sim_pc \notin {"push", "tail", "died"} =>
    /\ Len(snake.body) = snake.size
    /\ Len(enemy.body) = enemy.size

Max(a, b) == IF a > b THEN a ELSE b

\* 1 for a set flag, 0 for a clear one
Flag(b) == IF b THEN 1 ELSE 0

\* C11: an Update whose head enters a new cell (the only one that runs
\* UpdateBody) completes, and leaves size as it was when neither flag is set,
\* one more when only growing is set, and max(0, size + growing - 3) when
\* cutting is set.
C11_SizeAfterUpdate ==
  [][ sim_pc = "tail" =>
        LET s == Who(sim_who)
        IN  /\ sim_pc' = "died"
            /\ Who(sim_who)'.size =
                 IF s.cutting THEN Max(0, s.size + Flag(s.growing) - kCutLength)
                 ELSE s.size + Flag(s.growing) ]_vars

\* a snake with both pending flags left out
ButFlags(s) == [s EXCEPT !.growing = FALSE, !.cutting = FALSE]

\* C12: GrowBody and CutBody set their flag and change nothing else of the
\* snake; a flag is set only by a food effect, which leaves body, size, head,
\* heading and alive alone; a flag is cleared only by the snake's own
\* UpdateBody, and every UpdateBody (the head has entered a new cell) clears
\* both flags and has applied them: the body keeps its oldest cell exactly when
\* growing was set and loses min(3, size) cells more exactly when cutting was.
C12_FlagsDeferred ==
  /\ [](\A s \in {snake, enemy} :
          /\ GrowBody(s) = [s EXCEPT !.growing = TRUE]
          /\ CutBody(s) = [s EXCEPT !.cutting = TRUE])
  /\ [][ \A w \in {"snake", "enemy"} :
           LET s == Who(w)
               t == Who(w)'
           IN  /\ ((~s.growing /\ t.growing) \/ (~s.cutting /\ t.cutting))
                    => (sim_pc = "effect" /\ sim_who = w)
               /\ (sim_pc = "effect" /\ sim_who = w)
                    => [ButFlags(t) EXCEPT !.speed = s.speed] = ButFlags(s)
               /\ ((s.growing /\ ~t.growing) \/ (s.cutting /\ ~t.cutting))
                    => (sim_pc = "tail" /\ sim_who = w)
               /\ (sim_pc = "tail" /\ sim_who = w)
                    => /\ ~t.growing
                       /\ ~t.cutting
                       /\ Len(t.body) = Len(s.body) - (1 - Flag(s.growing))
                                        - (IF s.cutting
                                           THEN Min(kCutLength, s.size + Flag(s.growing))
                                           ELSE 0) ]_vars

\* C13: the counter of every food is at least 0.
C13_CounterNonNegative ==
  \A i \in 1..Len(foods) : foods[i].counter >= 0

\* C14: a relocation sets a slot's counter to MAX_COUNT, a Count takes one
\* off every counter, leaves the position alone and makes the type Normal when
\* the counter is then 0 or less, and nothing else touches a slot; a slot
\* whose counter is 0 or less is Normal.  So the 300th Count after a
\* relocation leaves the slot Normal where it was, and Normal it stays until
\* the slot is relocated.
C14_ExpiresToNormal ==
  /\ [](\A i \in 1..Len(foods) : foods[i].counter <= 0 => foods[i].type = "kNormal")
  /\ [][ \A i \in 1..Len(foods) :
           LET f == foods[i]
               g == foods'[i]
           IN  \/ g = f
               \/ /\ sim_pc = "count"
                  /\ g = [f EXCEPT !.counter = @ - 1,
                                   !.type = IF f.counter - 1 <= 0 THEN "kNormal" ELSE @]
               \/ /\ sim_pc = "upd_pos"
                  /\ i = sim_index + 1
                  /\ g = [f EXCEPT !.x = g.x, !.y = g.y]
               \/ /\ sim_pc = "upd_type"
                  /\ i = sim_index + 1
                  /\ g = [f EXCEPT !.type = g.type, !.counter = MAX_COUNT] ]_vars

\* C14 witness: the 300th Count of the game has just run, and a food drawn
\* Boost at construction and never reached is Normal, where it was drawn.
C14_Witness ==
  /\ ticks = MAX_COUNT
  /\ sim_pc = "check_lock"
  /\ \E i \in 1..Len(foods) :
       /\ foods[i].counter = 0
       /\ foods[i].type = "kNormal"
       /\ foods[i].x \in BAge.W
       /\ foods[i].y \in BAge.H

\* where Game::Update is: 1 and 2 the player's and the enemy's Update, 3
\* food_manager.Count(), 4 and 5 the player's and the enemy's food check with
\* its effect and PlaceFood; 0 outside Game::Update (and in Game::Game)
Phase ==
  CASE sim_who = "ctor" -> 0
    [] sim_pc \in {"run", "input", "nav_lock", "nav_copy", "update",
                   "report_lock", "report", "done"} -> 0
    [] sim_pc \in {"head", "push", "tail", "died", "killed"} ->
         IF sim_who = "snake" THEN 1 ELSE 2
    [] sim_pc \in {"count_lock", "count"} -> 3
    [] OTHER -> IF sim_who = "snake" THEN 4 ELSE 5

\* C15: a tick that starts with both snakes alive enters the snakes' Update;
\* Game::Update goes through its phases in order (player's move, enemy's
\* move, Count, player's food check, enemy's food check) once per iteration
\* of Run's loop; Count takes exactly one off every counter and nothing else
\* lowers a counter; the type applied by a food effect is the type the slot
\* has then, after the tick's Count.
C15_CountOncePerTick ==
  [][ /\ (sim_pc = "update" /\ ~Dead) => Phase' = 1
      /\ \/ Phase' = Phase
         \/ Phase' = Phase + 1
         \/ Phase = 5 /\ Phase' = 0
      /\ ticks' # ticks => (Phase = 0 /\ Phase' = 0)
      /\ sim_pc = "count" =>
           \A i \in 1..Len(foods) : foods'[i].counter = foods[i].counter - 1
      /\ (\E i \in 1..Len(foods) : foods'[i].counter < foods[i].counter)
           => (sim_pc = "count" /\ Phase' = 4)
      /\ sim_pc = "effect" => sim_arg = foods[sim_index + 1].type ]_vars

\* C15 witness: a food drawn Boost is reached in the tick whose Count takes
\* its counter to 0, and the effect about to be applied is Normal's.
C15_Witness ==
  /\ sim_pc = "effect"
  /\ foods[sim_index + 1].counter = 0
  /\ BAge.N = {0}
  /\ sim_arg = "kNormal"

Other(w) == IF w = "snake" THEN "enemy" ELSE "snake"

\* C16: when the food check of a snake finds a food in the snake's head cell,
\* the effect of that food's type is applied to that snake: Normal sets the
\* pending growth, adds 0.005 to a speed below MAX_SPEED and 1 to its score;
\* Boost sets the pending growth, adds 0.05 to the speed and 3 to the score;
\* Cut sets the pending growth and the pending cut and adds 3 to the score.
\* Nothing else of that snake changes, and the other snake and the other
\* score are left as they are.
C16_EffectPerType ==
  [][ /\ sim_pc = "check" =>
           LET cell == HeadCell(Who(sim_who))
           IN  (\E i \in 1..Len(foods) : foods[i].x = cell[1] /\ foods[i].y = cell[2])
                 => /\ sim_pc' = "score_lock"
                    /\ sim_who' = sim_who
                    /\ foods[sim_index' + 1].x = cell[1]
                    /\ foods[sim_index' + 1].y = cell[2]
      /\ sim_pc \in {"score_lock", "type_lock", "type"} =>
           /\ sim_pc' \in {"score_lock", "type_lock", "type", "effect"}
           /\ UNCHANGED <<snake, enemy, scores, sim_who, sim_index>>
      /\ sim_pc = "effect" =>
           LET s == Who(sim_who)
               t == IF sim_who = "snake" THEN snake' ELSE enemy'
               k == IF sim_who = "snake" THEN 1 ELSE 2
               type == foods[sim_index + 1].type
           IN  /\ t.growing
               /\ t.cutting = (s.cutting \/ type = "kCut")
               /\ t.speed = s.speed +
                    (CASE type = "kNormal" ->
                            IF s.speed < MAX_SPEED THEN kNormalSpeedUp ELSE 0
                       [] type = "kBoost" -> kBoostSpeedUp
                       [] type = "kCut" -> 0)
               /\ t = [s EXCEPT !.growing = t.growing, !.cutting = t.cutting,
                                !.speed = t.speed]
               /\ scores'[k] = scores[k] +
                    (IF type = "kNormal" THEN kNormalScore ELSE kSpecialScore)
               /\ scores'[3 - k] = scores[3 - k]
               /\ Who(Other(sim_who))' = Who(Other(sim_who)) ]_vars

\* C16 witness: the player has just been given the effect of a Cut food, the
\* enemy has been given nothing.
C16_Witness ==
  /\ sim_pc = "place"
  /\ sim_who = "snake"
  /\ snake.growing /\ snake.cutting
  /\ scores[1] = kSpecialScore
  /\ scores[2] = 1
  /\ ~enemy.growing /\ ~enemy.cutting /\ enemy.speed = kEnemySpeed

\* the steps of one PlaceFood(index) call, UpdateFood included
PlaceFoodPcs == {"place", "upd_lock", "upd_pos", "upd_type"}

\* C17: PlaceFood(index) called for a consumed food is called for the slot in
\* the consumer's head cell; from its first draw to its return it leaves every
\* other slot as it is (position, type and counter) and the number of slots
\* the same; when it returns, slot index has the drawn position, which is not
\* the cell it was consumed in, the drawn type, and a counter of MAX_COUNT.
C17_RelocatesOneSlot ==
  [][ (sim_pc \in PlaceFoodPcs) =>
        LET i == sim_index + 1
        IN  /\ Len(foods') = Len(foods)
            /\ \A j \in 1..Len(foods) : j # i => foods'[j] = foods[j]
            /\ (sim_pc = "place" /\ sim_who # "ctor") =>
                 <<foods[i].x, foods[i].y>> = HeadCell(Who(sim_who))
            /\ (sim_pc = "upd_type" /\ sim_pc' # sim_pc) =>
                 /\ foods'[i] = [x |-> sim_arg.x, y |-> sim_arg.y,
                                 type |-> sim_arg.type, counter |-> MAX_COUNT]
                 /\ (sim_who # "ctor" =>
                       <<foods'[i].x, foods'[i].y>> # HeadCell(Who(sim_who)))
    ]_vars

\* C17 witness: in the second tick the player has consumed slot 0, which is
\* back at the full lifetime, while slot 1 has aged twice since construction.
C17_Witness ==
  /\ sim_pc = "check_lock"
  /\ sim_who = "enemy"
  /\ ticks = 2
  /\ scores[1] > 0
  /\ foods[1].counter = MAX_COUNT
  /\ foods[2].counter = MAX_COUNT - 2

BothHeadsOn(i) ==
  /\ HeadCell(snake) = HeadCell(enemy)
  /\ <<foods[i].x, foods[i].y>> = HeadCell(snake)

\* C18: the enemy's food check begins only when the player's has ended, with
\* no food found or with the return of PlaceFood, and from the player's check
\* to that point only the player is served; when at the player's check both
\* heads are in the cell of a food, the player's check returns a slot of that
\* cell; a slot the enemy consumes has been aged in this tick, so it is not
\* one the player consumed and relocated in this tick.
C18_PlayerFirst ==
  /\ [][ /\ (sim_pc' = "check_lock" /\ sim_who' = "enemy" /\ sim_pc # "check_lock")
              => (sim_who = "snake" /\ sim_pc \in {"check", "upd_type"})
         /\ (Phase = 4 /\ sim_who' # sim_who)
              => (sim_pc \in {"check", "upd_type"} /\ sim_pc' = "check_lock")
         /\ (sim_pc = "check" /\ sim_who = "snake"
               /\ \E i \in 1..Len(foods) : BothHeadsOn(i))
              => /\ sim_pc' = "score_lock"
                 /\ sim_who' = "snake"
                 /\ BothHeadsOn(sim_index' + 1) ]_vars
  /\ []((sim_who = "enemy" /\ sim_pc \in {"score_lock", "type_lock", "type", "effect"})
          => foods[sim_index + 1].counter < MAX_COUNT)

\* C18 witness: both heads are in one cell, the player has consumed the food
\* that was there, and the enemy's check is about to find nothing.
C18_Witness ==
  /\ sim_pc = "check"
  /\ sim_who = "enemy"
  /\ HeadCell(snake) = HeadCell(enemy)
  /\ scores[1] > 0
  /\ scores[2] = 1
  /\ \E i \in 1..Len(foods) : foods[i].counter = MAX_COUNT
  /\ CheckFood(foods, HeadCell(enemy)[1], HeadCell(enemy)[2]) = -1

\* cell c is the cell of s's head or one of the cells in s's body
OnSnake(s, c) ==
  \/ c = <<ToInt(s.head_x), ToInt(s.head_y)>>
  \/ \E k \in 1..Len(s.body) : s.body[k] = c

\* C19: the cell PlaceFood has chosen is, from the choice to the return of
\* UpdateFood, not the head's cell and not a body cell of the player or of the
\* enemy; so the slot it has written is on neither snake when it returns,
\* in the constructor and after a consumption alike.
C19_PlacedOffSnakes ==
  /\ [](sim_pc \in {"upd_lock", "upd_pos", "upd_type"} =>
          /\ ~OnSnake(snake, <<sim_arg.x, sim_arg.y>>)
          /\ ~OnSnake(enemy, <<sim_arg.x, sim_arg.y>>))
  /\ [][ (sim_pc = "upd_type" /\ sim_pc' # sim_pc) =>
           LET f == foods'[sim_index + 1]
           IN  /\ ~OnSnake(snake', <<f.x, f.y>>)
               /\ ~OnSnake(enemy', <<f.x, f.y>>) ]_vars

\* C19 witness: the player has consumed a food; of the four cells PlaceFood
\* draws from, one is the player's head's and one is in its body, and
\* PlaceFood has made its choice.
C19_Witness ==
  /\ sim_pc = "upd_lock"
  /\ sim_who = "snake"
  /\ \E x \in BGame.W, y \in BGame.H : <<x, y>> = HeadCell(snake)
  /\ \E x \in BGame.W, y \in BGame.H : InSeq(<<x, y>>, snake.body)

OnGrid(f) == f.x \in 0..(kGridWidth - 1) /\ f.y \in 0..(kGridHeight - 1)

\* Game::Game is still in its loop of PlaceFood calls
InConstruction == sim_who = "ctor" /\ sim_pc \in PlaceFoodPcs

\* C20: once Game::Game has returned, every food's position is a cell of the
\* grid; the render thread does not run before that, and every position in
\* the renderer's copy is a cell of the grid; so are the positions read by
\* CheckFood and by Navigate.
C20_FoodsOnGrid ==
  /\ ~InConstruction => \A i \in 1..Len(foods) : OnGrid(foods[i])
  /\ sim_pc \in {"check", "nav_copy"} => \A i \in 1..Len(foods) : OnGrid(foods[i])
  /\ r_pc # "off" => ~InConstruction
  /\ \A i \in 1..Len(r_foods) : OnGrid(r_foods[i])

\* C20 witness: the renderer holds a copy of all the foods while the
\* player's food check of the first tick is scanning them.
C20_Witness ==
  /\ Len(r_foods) = target_food_number
  /\ sim_pc = "check"
  /\ sim_who = "snake"
  /\ ticks = 1

\* the cells PlaceFood can draw under B that are on neither snake
FreeCells(B) ==
  {c \in B.W \X B.H : ~OnSnake(snake, c) /\ ~OnSnake(enemy, c)}

C22_ScoreLockNotInPlaceFood ==
  score_mtx # "none" =>
    /\ score_mtx = "sim"
    /\ sim_pc \in {"type_lock", "type", "effect", "report"}

\* Manhattan distance from cell c to food f
Dist(f, c) == Abs(f.x - c[1]) + Abs(f.y - c[2])

\* the food Navigate is called with that is nearest to cell c, the first of
\* them in the vector when several are as near (1-based)
FirstNearest(fs, c) ==
  CHOOSE n \in 1..Len(fs) :
    \A i \in 1..Len(fs) :
      \/ Dist(fs[n], c) < Dist(fs[i], c)
      \/ Dist(fs[n], c) = Dist(fs[i], c) /\ n <= i

\* C23: the index Navigate's loop ends with is that of a food at the least
\* Manhattan distance from the head's cell, the lowest such index; and the
\* heading Navigate leaves is the one computed for that food from the
\* snake's heading, head cell and body.
C23_NearestFirst ==
  /\ [](sim_pc = "nav_copy" =>
          Nearest(foods, HeadCell(enemy)[1], HeadCell(enemy)[2]) + 1
            = FirstNearest(foods, HeadCell(enemy)))
  /\ [][ sim_pc = "nav_copy" =>
           LET c == HeadCell(enemy)
               f == foods[FirstNearest(foods, c)]
           IN  enemy' = [enemy EXCEPT !.direction =
                           Avoid(enemy, Candidate(enemy.direction, f.x, f.y, c[1], c[2]), 0)]
       ]_vars

\* C23 witness: Navigate is called with two foods in different cells at the
\* same distance from the enemy's head, for which the headings differ.
C23_Witness ==
  /\ sim_pc = "nav_copy"
  /\ LET c == HeadCell(enemy)
     IN  /\ Dist(foods[1], c) = Dist(foods[2], c)
         /\ Candidate(enemy.direction, foods[1].x, foods[1].y, c[1], c[2])
              # Candidate(enemy.direction, foods[2].x, foods[2].y, c[1], c[2])

\* food f is strictly on the side of cell c that heading d points to
Ahead(d, f, c) ==
  CASE d = "kUp"    -> f.y < c[2]
    [] d = "kDown"  -> f.y > c[2]
    [] d = "kLeft"  -> f.x < c[1]
    [] d = "kRight" -> f.x > c[1]

Perpendicular(d) ==
  IF d \in {"kUp", "kDown"} THEN {"kLeft", "kRight"} ELSE {"kUp", "kDown"}

Reverse(d) ==
  CASE d = "kUp"    -> "kDown"
    [] d = "kDown"  -> "kUp"
    [] d = "kLeft"  -> "kRight"
    [] d = "kRight" -> "kLeft"

\* the heading Navigate has computed when it enters the avoidance loop
CandidateOf(s, fs) ==
  LET c == HeadCell(s)
      f == fs[Nearest(fs, c[1], c[2]) + 1]
  IN  Candidate(s.direction, f.x, f.y, c[1], c[2])

\* C24: when Navigate is called, the heading it has before the avoidance
\* loop is the snake's heading exactly when the target is strictly ahead on
\* the heading's axis; otherwise it is a perpendicular heading, and one that
\* points to the target's side whenever the target is not level with the
\* head on the perpendicular axis; it is never the reverse of the snake's
\* heading.
C24_CandidateHeading ==
  sim_pc = "nav_copy" =>
    LET c == HeadCell(enemy)
        f == foods[Nearest(foods, c[1], c[2]) + 1]
        d == enemy.direction
        cand == CandidateOf(enemy, foods)
    IN  /\ (cand = d) <=> Ahead(d, f, c)
        /\ ~Ahead(d, f, c) =>
             /\ cand \in Perpendicular(d)
             /\ (\E p \in Perpendicular(d) : Ahead(p, f, c)) => Ahead(cand, f, c)
        /\ cand # Reverse(d)

\* C24 witness: the enemy has turned downwards, its target is behind it and
\* to one side, and Navigate is called.
C24_Witness ==
  /\ sim_pc = "nav_copy"
  /\ enemy.direction = "kDown"
  /\ LET c == HeadCell(enemy)
         f == foods[Nearest(foods, c[1], c[2]) + 1]
     IN  /\ Ahead("kUp", f, c)
         /\ Ahead("kLeft", f, c)
         /\ CandidateOf(enemy, foods) = "kLeft"

\* the cell next to s's head's cell in heading dir, as Navigate computes it
Adjacent(s, dir) == NextPos(dir, HeadCell(s)[1], HeadCell(s)[2])

\* C25: when the avoidance loop of Navigate finds the cell in the candidate
\* heading occupied, the rotation it applies takes Up to Right, Right to
\* Down, Down to Left and Left to Right.
C25_RotationCycle ==
  (sim_pc = "nav_copy" /\ OnSnake(enemy, Adjacent(enemy, CandidateOf(enemy, foods)))) =>
    LET dir == CandidateOf(enemy, foods)
    IN  NextDirection(dir) =
          CASE dir = "kUp"    -> "kRight"
            [] dir = "kRight" -> "kDown"
            [] dir = "kDown"  -> "kLeft"
            [] dir = "kLeft"  -> "kRight"

\* C26: when Navigate returns, the cell next to the head in the heading it
\* has chosen is a cell of the snake's own head or body only if all four
\* cells next to the head are.
C26_AvoidsOwnBody ==
  [][ sim_pc = "nav_copy" =>
        (OnSnake(enemy', Adjacent(enemy', enemy'.direction))
           => \A d \in Directions : OnSnake(enemy', Adjacent(enemy', d))) ]_vars

\* the code's indices (from 0) of the foods in cell c
FoodsAt(c) == {i \in 0..(Len(foods) - 1) : <<foods[i + 1].x, foods[i + 1].y>> = c}

\* C28: a call of CheckFood with the cell of a snake's head returns -1 when
\* no food is in that cell and no other time, returns the lowest index of
\* the foods in that cell otherwise, and leaves every food as it is.
C28_CheckFoodFirstMatch ==
  [][ sim_pc = "check" =>
        LET at == FoodsAt(HeadCell(Who(sim_who)))
        IN  /\ (sim_index' = -1) <=> (at = {})
            /\ at # {} => (sim_index' \in at /\ \A i \in at : sim_index' <= i)
            /\ UNCHANGED foods ]_vars

\* C28 witness: both foods are in the cell of the player's head and
\* CheckFood has returned index 0.
C28_Witness ==
  /\ sim_pc = "score_lock"
  /\ sim_who = "snake"
  /\ FoodsAt(HeadCell(snake)) = {0, 1}
  /\ sim_index = 0

\* C29: when UpdateBody comes to its cut, after the push and the erase of the
\* tail or the growth, the number of cells it erases, min(3, size), is at
\* most the number of cells in the body.
C29_CutWithinBody ==
  sim_pc = "tail" =>
    LET s == BodyTail(Who(sim_who))
    IN  s.cutting => Min(kCutLength, s.size) <= Len(s.body)

\* s has the size, speed and flags it was constructed with: it has consumed
\* no food (every effect raises the speed or sets cutting, and a cut of a
\* snake of size 3 that has grown leaves size 1)
Unfed(s, speed) == s.size = 3 /\ s.speed = speed /\ ~s.growing /\ ~s.cutting

\* C30: both scores are 0 while Game::Game runs; a score changes only by the
\* points of a food its snake consumes; while neither snake has consumed a
\* food the scores are equal, and so are the reported ones.
C30_ScoresAreSums ==
  /\ [](sim_who = "ctor" => scores = <<0, 0>>)
  /\ []((Unfed(snake, kSnakeSpeed) /\ Unfed(enemy, kEnemySpeed)) =>
          /\ scores[1] = scores[2]
          /\ sim_pc = "done" => report[1] = report[2])
  /\ [][ scores' # scores =>
           /\ sim_pc = "effect"
           /\ \E k \in {1, 2} :
                /\ k = (IF sim_who = "snake" THEN 1 ELSE 2)
                /\ scores'[k] = scores[k] +
                     (IF sim_arg = "kNormal" THEN kNormalScore ELSE kSpecialScore)
                /\ scores'[3 - k] = scores[3 - k] ]_vars

----------------------------------------------------------------------------
(* A long game in which the player consumes a food on almost every tick.
   The cells and types the random engines deliver and the keys the player
   presses are chosen from the current state: slot 0 is always placed in the
   cell the player's head enters next, slot 1 a few cells ahead of the enemy,
   so that the enemy walks up and down two columns and stays alive. *)

\* s after one more Snake::UpdateHead with direction d
Moved(s, d) == UpdateHead([s EXCEPT !.direction = d])

RECURSIVE NextCellFrom(_, _, _, _)
\* the first cell other than c0 that the head enters, within m more moves
NextCellFrom(c0, s, d, m) ==
  IF HeadCell(s) # c0 \/ m = 0 THEN HeadCell(s)
  ELSE NextCellFrom(c0, Moved(s, d), d, m - 1)

\* the cell the head of s enters next when s keeps moving in direction d
NextCell(s, d) == NextCellFrom(HeadCell(s), Moved(s, d), d, 2 * Unit)

\* c is a cell of the grid that Game::PlaceFood accepts
FreeCell(c) ==
  /\ c[1] \in 0..(kGridWidth - 1)
  /\ c[2] \in 0..(kGridHeight - 1)
  /\ ~OnSnake(snake, c)
  /\ ~OnSnake(enemy, c)

\* c is free and farther from the enemy's head than the enemy's own food
FarCell(c) == FreeCell(c) /\ Dist([x |-> c[1], y |-> c[2]], HeadCell(enemy)) >= 8

\* the directions the player may take, the preferred one first: never the
\* reverse of its heading
PrefDirs ==
  LET d == snake.direction
  IN  IF d = "kUp" THEN <<"kUp", "kLeft", "kRight">>
      ELSE IF d = "kDown" THEN <<"kLeft", "kDown", "kRight">>
      ELSE <<"kUp", d, "kDown">>

\* the cell drawn for slot 0: the next cell of the player in a direction it
\* may take
PlayerTarget ==
  LET ds == PrefDirs
  IN  IF FarCell(NextCell(snake, ds[1])) THEN NextCell(snake, ds[1])
      ELSE IF FarCell(NextCell(snake, ds[2])) THEN NextCell(snake, ds[2])
      ELSE IF FarCell(NextCell(snake, ds[3])) THEN NextCell(snake, ds[3])
      ELSE IF FreeCell(NextCell(snake, ds[1])) THEN NextCell(snake, ds[1])
      ELSE IF FreeCell(NextCell(snake, ds[2])) THEN NextCell(snake, ds[2])
      ELSE IF FreeCell(NextCell(snake, ds[3])) THEN NextCell(snake, ds[3])
      ELSE <<-1, -1>>

\* the cell drawn for slot 1: five cells ahead of the enemy in its column,
\* or in the next column when the enemy is at the top or the bottom row
LureTarget ==
  LET e == HeadCell(enemy)
      d == enemy.direction
      up == IF e[2] - 5 > 0 THEN e[2] - 5 ELSE 0
      down == IF e[2] + 5 < kGridHeight - 1 THEN e[2] + 5 ELSE kGridHeight - 1
  IN  CASE d = "kUp" -> IF e[2] > 0 THEN <<e[1], up>> ELSE <<e[1] + 1, 5>>
        [] d = "kDown" -> IF e[2] < kGridHeight - 1 THEN <<e[1], down>>
                          ELSE <<e[1] - 1, kGridHeight - 1 - 5>>
        [] d = "kRight" -> <<e[1] + 1, down>>
        [] d = "kLeft" -> <<e[1] - 1, up>>

\* the cell random_w and random_h deliver for the slot PlaceFood is filling
WrapTarget == IF sim_index = 0 THEN PlayerTarget ELSE LureTarget

\* the key pressed: the direction in which slot 0's food is the next cell
WrapKeys ==
  LET ds == PrefDirs
      at(d) == <<foods[1].x, foods[1].y>> = NextCell(snake, d)
  IN  IF at(ds[1]) THEN {ds[1]}
      ELSE IF at(ds[2]) THEN {ds[2]}
      ELSE IF at(ds[3]) THEN {ds[3]}
      ELSE {"none"}

\* the value random_n delivers: a Normal food for a snake at the player's
\* initial speed, a Cut when the snake's body will hold the cells a cut
\* erases, otherwise a Boost for the player and a Normal food for the enemy
WrapTypes ==
  LET s == IF sim_index = 0 THEN snake ELSE enemy
  IN  IF s.speed = kSnakeSpeed THEN {30}
      ELSE IF ~s.cutting /\ Len(s.body) + (IF s.growing THEN 1 ELSE 0) >= 2 THEN {15}
      ELSE IF sim_index = 0 THEN {0}
      ELSE {30}

BWrap ==
  LET k == WrapKeys
  IN  [ticks |-> MaxWrapTicks,
       keys |-> [t \in 1..MaxWrapTicks |-> IF t = 1 THEN k \cup {"quit"} ELSE k],
       W |-> {WrapTarget[1]} \cap 0..(kGridWidth - 1),
       H |-> {WrapTarget[2]} \cap 0..(kGridHeight - 1),
       N |-> WrapTypes]

NextWrap == SimNext(BWrap)

SpecWrap == Init /\ [][NextWrap]_vars

\* the head of s is inside the grid
OnBoard(s) ==
  /\ 0 <= s.head_x /\ s.head_x < kGridWidth * Unit
  /\ 0 <= s.head_y /\ s.head_y < kGridHeight * Unit

\* the coordinate h advanced by the signed speed v, modulo the grid size n
WrapAt(h, v, n) == (h + v) % (n * Unit)

\* C27: after every Update both coordinates of each snake's head are in
\* [0, grid size), and Update moves the head to (old coordinate + signed
\* speed) mod grid size on the axis of its heading and leaves the other
\* coordinate as it is.
C27_HeadWraps ==
  /\ [](OnBoard(snake) /\ OnBoard(enemy))
  /\ [][ (sim_pc = "head" /\ sim_pc' # sim_pc) =>
           LET s == Who(sim_who)
               t == IF sim_who = "snake" THEN snake' ELSE enemy'
               vx == CASE s.direction = "kLeft" -> -s.speed
                       [] s.direction = "kRight" -> s.speed
                       [] OTHER -> 0
               vy == CASE s.direction = "kUp" -> -s.speed
                       [] s.direction = "kDown" -> s.speed
                       [] OTHER -> 0
           IN  /\ t.head_x = WrapAt(s.head_x, vx, kGridWidth)
               /\ t.head_y = WrapAt(s.head_y, vy, kGridHeight) ]_vars

\* the cell of the food in slot i (from 1)
FoodCell(i) == <<foods[i].x, foods[i].y>>

\* C31: once Game::Game has returned, no two slots of the food manager hold
\* the same cell.
C31_FoodsApart ==
  ~InConstruction =>
    \A i, j \in 1..Len(foods) : i # j => FoodCell(i) # FoodCell(j)

\* C32: a consumption never finds the growth of an earlier consumption of
\* the same snake still pending, so each consumption has a body shift of its
\* own at which the snake grows; the growing flag is set by a consumption
\* only, and size rises only by one, at a body shift with the flag set.
C32_OneGrowthPerFood ==
  /\ [](sim_pc = "effect" => ~Who(sim_who).growing)
  /\ [][ /\ (snake'.growing /\ ~snake.growing) => (sim_pc = "effect" /\ sim_who = "snake")
         /\ (enemy'.growing /\ ~enemy.growing) => (sim_pc = "effect" /\ sim_who = "enemy")
         /\ \A w \in {"snake", "enemy"} :
              LET s == IF w = "snake" THEN snake ELSE enemy
                  t == IF w = "snake" THEN snake' ELSE enemy'
              IN  (t.size > s.size) =>
                    /\ sim_pc = "tail" /\ sim_who = w
                    /\ s.growing /\ ~t.growing
                    /\ t.size = s.size + 1 ]_vars

\* C33: the heading Navigate leaves the enemy with is never the reverse of
\* the heading the enemy had when Navigate was called.
C33_NeverReverses ==
  [][ (sim_pc = "nav_copy" /\ sim_pc' # sim_pc) =>
        enemy'.direction # Reverse(enemy.direction) ]_vars

----------------------------------------------------------------------------
(* A game in which the enemy is led to the right edge of the grid: slot 0
   is drawn on column 31 in the enemy's row, then one cell above the enemy,
   then four cells below it; slot 1 stays in a corner and the player, with
   no key pressed, moves up its column. *)

\* the cell random_w and random_h deliver for slot 0
EdgeLure ==
  LET e == HeadCell(enemy)
  IN  IF e[1] < kGridWidth - 1 THEN <<kGridWidth - 1, e[2]>>
      ELSE IF enemy.direction = "kRight" THEN <<e[1], e[2] - 1>>
      ELSE <<e[1], e[2] + 4>>

\* the cell random_w and random_h deliver for the slot PlaceFood is filling
EdgeTarget == IF sim_index = 0 THEN EdgeLure ELSE <<1, 1>>

BEdge == [ticks |-> MaxEdgeTicks,
          keys |-> [t \in 1..MaxEdgeTicks |-> {"none"}],
          W |-> {EdgeTarget[1]} \cap 0..(kGridWidth - 1),
          H |-> {EdgeTarget[2]} \cap 0..(kGridHeight - 1),
          N |-> {0}]

NextEdge == SimNext(BEdge)

SpecEdge == Init /\ [][NextEdge]_vars

RECURSIVE ProbedFrom(_, _, _)
\* the headings the avoidance loop of Navigate probes, from its i-th probe on
ProbedFrom(s, dir, i) ==
  IF i >= kProbes THEN {}
  ELSE {dir} \cup (IF OnSnake(s, Adjacent(s, dir))
                   THEN ProbedFrom(s, NextDirection(dir), i + 1)
                   ELSE {})

\* the headings Navigate probes for s with the foods fs
Probed(s, fs) == ProbedFrom(s, CandidateOf(s, fs), 0)

\* the cell next to c in heading d on the grid without edges
TorusNext(c, d) ==
  CASE d = "kUp"    -> <<c[1], (c[2] - 1) % kGridHeight>>
    [] d = "kDown"  -> <<c[1], (c[2] + 1) % kGridHeight>>
    [] d = "kLeft"  -> <<(c[1] - 1) % kGridWidth, c[2]>>
    [] d = "kRight" -> <<(c[1] + 1) % kGridWidth, c[2]>>

\* C34: the cell each probe of Navigate's avoidance loop tests is the cell
\* next to the head's cell in the probed heading on the grid without edges:
\* from an edge cell, the cell on the opposite edge.
C34_ProbesWrap ==
  sim_pc = "nav_copy" =>
    \A d \in Probed(enemy, foods) : Adjacent(enemy, d) = TorusNext(HeadCell(enemy), d)

\* where the simulation thread holds an index it passes to GetType or to
\* UpdateFood (through PlaceFood)
IndexPcs == {"score_lock", "type_lock", "type", "effect", "place", "upd_lock",
             "upd_pos", "upd_type"}

\* C35: every index Game passes to GetType or to UpdateFood, in Game::Game
\* and after a consumption, is one of 0 .. GetSize() - 1.
C35_IndexInRange ==
  sim_pc \in IndexPcs => sim_index \in 0..(Len(foods) - 1)

\* a snake has consumed the food of the last slot and UpdateFood relocates it
C35_Witness ==
  /\ sim_pc = "upd_pos"
  /\ sim_who # "ctor"
  /\ sim_index = Len(foods) - 1

\* C36: once a snake is dead, an iteration of Run's loop later than the one
\* that recorded the death changes no score and no food (position, type,
\* lifetime counter), and does not go past the guard of Game::Update.
C36_FoodsFrozenOnDeath ==
  [][ (Dead /\ sim_pc \in LaterTickPcs) =>
        /\ scores' = scores
        /\ foods' = foods
        /\ sim_pc' \in LaterTickPcs \cup {"report_lock"} ]_vars

\* the player is dead and Game::Update has returned at its guard in a later
\* iteration; the foods still have a lifetime to lose
C36_Witness ==
  /\ ~snake.alive
  /\ sim_pc = "input"
  /\ ticks = MaxDeathTicks
  /\ \A i \in 1..Len(foods) : foods[i].counter > 0

\* the step of Run's loop that follows pc in an iteration that finds a dead
\* snake: HandleInput, GetFoods and Navigate, Update (which returns at its
\* guard), and the test of while (running)
AfterInLoop(pc) ==
  CASE pc = "input" -> IF running THEN "nav_lock" ELSE "report_lock"
    [] pc = "nav_lock" -> "nav_copy"
    [] pc = "nav_copy" -> "update"
    [] pc = "update" -> "input"

\* C37: Run leaves its loop only when running is false, and running is
\* cleared only by HandleInput; with a dead snake every iteration still
\* calls HandleInput, Navigate and Update in turn.
C37_OnlyInputEndsRun ==
  /\ [][ (sim_pc' = "report_lock" /\ sim_pc # "report_lock") =>
           (sim_pc = "input" /\ ~running) ]_vars
  /\ [][ (running' # running) => (sim_pc = "input" /\ running) ]_vars
  /\ [][ (Dead /\ sim_pc \in LaterTickPcs /\ sim_pc' # sim_pc) =>
           sim_pc' = AfterInLoop(sim_pc) ]_vars

\* the player has been dead for many iterations, running is still true and
\* Run is about to call Update once more
C37_Witness ==
  /\ ~snake.alive
  /\ running
  /\ sim_pc = "update"
  /\ ticks = MaxLongTicks - 1

Touching(a, b) ==
  \/ a = b
  \/ \E d \in Directions : TorusNext(a, d) = b

\* the body of s, oldest cell first, followed by the head's cell, is a walk:
\* what the last cells occupied by a head slower than a cell per tick are
RecentCells(s) ==
  LET path == Append(s.body, HeadCell(s))
  IN  \A i \in 1..(Len(path) - 1) : Touching(path[i], path[i + 1])

\* C39: when the head has entered a new cell and neither growing nor cutting
\* is set, UpdateBody appends the previous head cell and erases the oldest
\* cell: the body has the length it had, its newest cell is the previous head
\* cell, and it holds the cells the head occupied most recently.
C39_ShiftKeepsRecentCells ==
  [][ (sim_pc = "tail" /\ sim_pc' # sim_pc) =>
        LET s == Who(sim_who)
            t == IF sim_who = "snake" THEN snake' ELSE enemy'
        IN  (~s.growing /\ ~s.cutting /\ s.speed < Unit) =>
              /\ t.body = Tail(s.body)
              /\ t.body[Len(t.body)] = sim_arg
              /\ t.size = s.size
              /\ RecentCells(t) ]_vars

====
